---- MODULE Spec2Model ----
(***************************************************************************)
(* Astradb.py: connect to an Astra database, create a collection with      *)
(* server-side vectorization, and bulk-load the rows of a CSV file, each   *)
(* extended with a derived "$vectorize" field.                             *)
(*                                                                         *)
(* One run of main() is modelled.  The environment (the two environment    *)
(* variables) is fixed in Init; the outcome of every call that leaves the  *)
(* program (the remote service, the CSV reader) is chosen when the call    *)
(* is made.  The remote service and pandas are external: a call either     *)
(* raises or returns.                                                      *)
(***************************************************************************)
EXTENDS Integers, Sequences, FiniteSets, TLC

VARIABLES
    endpoint,    \* os.getenv("ASTRA_DB_API_ENDPOINT")
    token,       \* os.getenv("ASTRA_DB_APPLICATION_TOKEN")
    pc,          \* position of main()
    database,    \* main's database: what connect_to_database returned, or None
    collection,  \* main's collection: what create_collection returned, or None
    df,          \* the DataFrame read from the CSV file, NoFrame before that
    i,           \* position of the comprehension over df.iterrows(), 1-based
    documents,   \* the list the comprehension is building
    calls,       \* the calls made to the remote service so far, in order
    printed,     \* the lines written with print(), in order
    error        \* the exception that ended the run, or None

vars == <<endpoint, token, pc, database, collection, df, i, documents,
          calls, printed, error>>

-----------------------------------------------------------------------------
(* Bounds *)

MaxRows == 2

-----------------------------------------------------------------------------
(* Values *)

None == "None"

\* upload_csv_data_to_db's df before read_csv has returned.
NoFrame == [unbound |-> TRUE]

\* A cell of the DataFrame: a Python str, or the float nan pandas stores for
\* an empty cell.
StrVal(s) == [kind |-> "str", val |-> s]
NaN == [kind |-> "float", val |-> "nan"]

\* The cells a column may hold.  Every column may hold an empty cell.
ColumnValues(c) ==
    CASE c = "topic"         -> {StrVal("sports"), StrVal("news"), NaN}
      [] c = "hashtags_used" -> {StrVal("#nba,#finals"), NaN}
      [] c = "author"        -> {StrVal("ann"), NaN}
      [] OTHER               -> {StrVal("stale"), NaN}

\* What os.getenv can return for a variable: unset, set to the empty string,
\* set to a value.
EnvValues == {None, "", "set"}

TOPIC == "topic"
HASHTAGS == "hashtags_used"
VECTORIZE == "$vectorize"
COLLECTION_NAME == "social_media_collection"

\* Column names a header may hold.
ColumnNames == {TOPIC, HASHTAGS, "author", VECTORIZE}

\* The rows of a DataFrame with columns cols: each row gives every column
\* of the frame a cell, so no row has a key another row lacks.
Rows(cols) ==
    { r \in [cols -> UNION { ColumnValues(c) : c \in cols }] :
        \A c \in cols : r[c] \in ColumnValues(c) }

-----------------------------------------------------------------------------
(* Pure parts of the code *)

\* `not token or not endpoint`: None and "" are both falsy.
Falsy(v) == v = None \/ v = ""

\* Variant: `and` in place of `or`.
CredentialsMissing_And(tok, ep) == Falsy(tok) /\ Falsy(ep)

CredentialsMissing(tok, ep) == Falsy(tok) \/ Falsy(ep)

\* Formatting of a value inside an f-string: str(value).
Format(v) == IF v.kind = "str" THEN v.val ELSE "nan"

\* row['topic'] / row['hashtags_used'] raise KeyError when the frame has no
\* such column.
HasKeys(row) == TOPIC \in DOMAIN row /\ HASHTAGS \in DOMAIN row

\* Variant: the two interpolated columns exchanged.
VectorizeText_Swapped(row) ==
    "summary: " \o Format(row[HASHTAGS]) \o " | hashtags: " \o Format(row[TOPIC])

\* f"summary: {row['topic']} | hashtags: {row['hashtags_used']}"
VectorizeText(row) ==
    "summary: " \o Format(row[TOPIC]) \o " | hashtags: " \o Format(row[HASHTAGS])

\* Variant: only the two template columns are copied.
MakeDocument_TemplateColumnsOnly(row) ==
    [c \in {TOPIC, HASHTAGS, VECTORIZE} |->
        IF c = VECTORIZE THEN StrVal(VectorizeText(row)) ELSE row[c]]

\* Variant: the derived field is not added.
MakeDocument_NoDerivedField(row) == row

\* {**row.to_dict(), "$vectorize": ...}: the later key wins.
MakeDocument(row) ==
    [c \in (DOMAIN row) \cup {VECTORIZE} |->
        IF c = VECTORIZE THEN StrVal(VectorizeText(row)) ELSE row[c]]

\* len(inserted.inserted_ids) of an insert_many that returned: the client
\* returns one id per document it was given, and raises otherwise.
InsertedCount(docs) == Len(docs)

Raise(e) == /\ pc' = "failed"
            /\ error' = e

-----------------------------------------------------------------------------
(* Init and the steps of main() *)

Init ==
    /\ endpoint \in EnvValues
    /\ token \in EnvValues
    /\ pc = "connect"
    /\ database = None
    /\ collection = None
    /\ df = NoFrame
    /\ i = 1
    /\ documents = <<>>
    /\ calls = <<>>
    /\ printed = <<>>
    /\ error = None

\* connect_to_database, up to the construction of the client.
CheckCredentials ==
    /\ pc = "connect"
    /\ IF CredentialsMissing(token, endpoint)
          THEN Raise("RuntimeError")
          ELSE /\ pc' = "get_database"
               /\ error' = error
    /\ UNCHANGED <<endpoint, token, database, collection, df, i, documents,
                   calls, printed>>

\* Variant: a failed get_database is tried a second time.
GetDatabase_Retry ==
    /\ pc = "get_database"
    /\ calls' = Append(calls, <<"get_database", endpoint>>)
    /\ \E ok \in BOOLEAN :
          IF ok
             THEN /\ pc' = "database_info"
                  /\ UNCHANGED <<printed, error>>
             ELSE /\ printed' = Append(printed, <<"Error connecting to database">>)
                  /\ IF calls = <<>>
                        THEN UNCHANGED <<pc, error>>
                        ELSE Raise("ConnectionError")
    /\ UNCHANGED <<endpoint, token, database, collection, df, i, documents>>

\* Variant: the except clause re-raises without printing.
GetDatabase_Silent ==
    /\ pc = "get_database"
    /\ calls' = Append(calls, <<"get_database", endpoint>>)
    /\ \E ok \in BOOLEAN :
          IF ok
             THEN /\ pc' = "database_info"
                  /\ UNCHANGED error
             ELSE Raise("ConnectionError")
    /\ UNCHANGED <<endpoint, token, database, collection, df, i, documents,
                   printed>>

\* client.get_database(endpoint), inside the try.
GetDatabase ==
    /\ pc = "get_database"
    /\ calls' = Append(calls, <<"get_database", endpoint>>)
    /\ \E ok \in BOOLEAN :
          IF ok
             THEN /\ pc' = "database_info"
                  /\ UNCHANGED <<printed, error>>
             ELSE /\ printed' = Append(printed, <<"Error connecting to database">>)
                  /\ Raise("ConnectionError")
    /\ UNCHANGED <<endpoint, token, database, collection, df, i, documents>>

\* database.info().name and the print, still inside the try; then return.
DatabaseInfo ==
    /\ pc = "database_info"
    /\ calls' = Append(calls, <<"info">>)
    /\ \E ok \in BOOLEAN :
          IF ok
             THEN /\ printed' = Append(printed, <<"Connected to database">>)
                  /\ database' = "Database"
                  /\ pc' = "create_collection"
                  /\ UNCHANGED error
             ELSE /\ printed' = Append(printed, <<"Error connecting to database">>)
                  /\ Raise("ConnectionError")
                  /\ UNCHANGED database
    /\ UNCHANGED <<endpoint, token, collection, df, i, documents>>

\* Variant: a failed create_collection is swallowed and main goes on.
CreateCollection_Swallow ==
    /\ pc = "create_collection"
    /\ calls' = Append(calls, <<"create_collection", COLLECTION_NAME>>)
    /\ \E ok \in BOOLEAN :
          IF ok
             THEN /\ collection' = "Collection"
                  /\ printed' = Append(printed, <<"Created collection">>)
             ELSE UNCHANGED <<collection, printed>>
    /\ pc' = "read_csv"
    /\ UNCHANGED <<endpoint, token, database, df, i, documents, error>>

\* create_collection(database, "social_media_collection")
CreateCollection ==
    /\ pc = "create_collection"
    /\ calls' = Append(calls, <<"create_collection", COLLECTION_NAME>>)
    /\ \E ok \in BOOLEAN :
          IF ok
             THEN /\ collection' = "Collection"
                  /\ printed' = Append(printed, <<"Created collection">>)
                  /\ pc' = "read_csv"
                  /\ UNCHANGED error
             ELSE /\ Raise("ProvisioningError")
                  /\ UNCHANGED <<collection, printed>>
    /\ UNCHANGED <<endpoint, token, database, df, i, documents>>

\* df = pd.read_csv(csv_file_path)
ReadCsv ==
    /\ pc = "read_csv"
    /\ \/ /\ \E cols \in SUBSET ColumnNames, n \in 0..MaxRows :
                \E rs \in [1..n -> Rows(cols)] :
                    df' = [columns |-> cols, rows |-> rs]
          /\ pc' = "build"
          /\ UNCHANGED error
       \/ /\ Raise("FormatError")
          /\ UNCHANGED df
    /\ UNCHANGED <<endpoint, token, database, collection, i, documents,
                   calls, printed>>

\* Variant: rows with an empty topic are dropped.
BuildDocument_DropEmptyTopic ==
    /\ pc = "build"
    /\ i <= Len(df.rows)
    /\ IF HasKeys(df.rows[i])
          THEN /\ documents' = IF df.rows[i][TOPIC] = NaN
                                  THEN documents
                                  ELSE Append(documents, MakeDocument(df.rows[i]))
               /\ i' = i + 1
               /\ UNCHANGED <<pc, error>>
          ELSE /\ Raise("KeyError")
               /\ UNCHANGED <<i, documents>>
    /\ UNCHANGED <<endpoint, token, database, collection, df, calls, printed>>

\* Variant: a row without the template columns is skipped.
BuildDocument_SkipRow ==
    /\ pc = "build"
    /\ i <= Len(df.rows)
    /\ documents' = IF HasKeys(df.rows[i])
                       THEN Append(documents, MakeDocument(df.rows[i]))
                       ELSE documents
    /\ i' = i + 1
    /\ UNCHANGED <<endpoint, token, pc, database, collection, df, calls,
                   printed, error>>

\* Variant: each new document is put at the front of the list.
BuildDocument_Prepend ==
    /\ pc = "build"
    /\ i <= Len(df.rows)
    /\ IF HasKeys(df.rows[i])
          THEN /\ documents' = <<MakeDocument(df.rows[i])>> \o documents
               /\ i' = i + 1
               /\ UNCHANGED <<pc, error>>
          ELSE /\ Raise("KeyError")
               /\ UNCHANGED <<i, documents>>
    /\ UNCHANGED <<endpoint, token, database, collection, df, calls, printed>>

\* One iteration of the comprehension over df.iterrows().
BuildDocument ==
    /\ pc = "build"
    /\ i <= Len(df.rows)
    /\ IF HasKeys(df.rows[i])
          THEN /\ documents' = Append(documents, MakeDocument(df.rows[i]))
               /\ i' = i + 1
               /\ UNCHANGED <<pc, error>>
          ELSE /\ Raise("KeyError")
               /\ UNCHANGED <<i, documents>>
    /\ UNCHANGED <<endpoint, token, database, collection, df, calls, printed>>

\* collection.insert_many(documents) and the print of the inserted count.
InsertMany ==
    /\ pc = "build"
    /\ i > Len(df.rows)
    /\ calls' = Append(calls, <<"insert_many", documents>>)
    /\ \E ok \in BOOLEAN :
          IF ok
             THEN /\ printed' = Append(printed, <<"Inserted", InsertedCount(documents)>>)
                  /\ pc' = "done"
                  /\ UNCHANGED error
             ELSE /\ Raise("IngestError")
                  /\ UNCHANGED printed
    /\ UNCHANGED <<endpoint, token, database, collection, df, i, documents>>

Next ==
    \/ CheckCredentials
    \/ GetDatabase
    \/ DatabaseInfo
    \/ CreateCollection
    \/ ReadCsv
    \/ BuildDocument
    \/ InsertMany

Spec == Init /\ [][Next]_vars

-----------------------------------------------------------------------------
(* Properties *)

CallsOf(op) == { k \in 1..Len(calls) : calls[k][1] = op }

Ops == [k \in 1..Len(calls) |-> calls[k][1]]

IsPrefix(s, t) == Len(s) <= Len(t) /\ \A k \in 1..Len(s) : s[k] = t[k]

\* The records of the insert_many calls made so far.
Submitted == { calls[k][2] : k \in CallsOf("insert_many") }

\* The frame has been read and every row of it has both template columns.
AllRowsSupplyKeys ==
    /\ df # NoFrame
    /\ \A k \in 1..Len(df.rows) : {"topic", "hashtags_used"} \subseteq DOMAIN df.rows[k]

\* The frame has been read and some row of it lacks a template column.
SomeRowLacksKey ==
    /\ df # NoFrame
    /\ \E k \in 1..Len(df.rows) : ~ ({"topic", "hashtags_used"} \subseteq DOMAIN df.rows[k])

FirstRowLackingKey ==
    CHOOSE k \in 1..Len(df.rows) :
        /\ ~ ({"topic", "hashtags_used"} \subseteq DOMAIN df.rows[k])
        /\ \A j \in 1..(k - 1) : {"topic", "hashtags_used"} \subseteq DOMAIN df.rows[j]

\* C1: when the endpoint or the token is absent or empty, the run fails with
\* the configuration error (RuntimeError) and the remote service is never
\* called, neither before the failure nor after it.
C1_CredentialValidation ==
    (endpoint \in {None, ""} \/ token \in {None, ""}) =>
        /\ calls = <<>>
        /\ pc \in {"connect", "failed"}
        /\ pc = "failed" => error = "RuntimeError"
        /\ pc = "connect" => error = None

C1_Witness ==
    /\ pc = "failed"
    /\ error = "RuntimeError"
    /\ token = "set"
    /\ endpoint = ""

\* C2: when every one of the N rows of the frame supplies topic and
\* hashtags_used, insert_many is given exactly N records, the count printed
\* is N, and a run that completes has done both.
C2_RowCountPreserved ==
    AllRowsSupplyKeys =>
        /\ \A docs \in Submitted : Len(docs) = Len(df.rows)
        /\ \A k \in 1..Len(printed) :
              printed[k][1] = "Inserted" => printed[k][2] = Len(df.rows)
        /\ pc = "done" =>
              /\ CallsOf("insert_many") # {}
              /\ \E k \in 1..Len(printed) : printed[k][1] = "Inserted"

C2_Witness ==
    /\ pc = "done"
    /\ Len(df.rows) = 2
    /\ printed[Len(printed)] = <<"Inserted", 2>>

C2_WitnessEmpty ==
    /\ pc = "done"
    /\ Len(df.rows) = 0
    /\ printed[Len(printed)] = <<"Inserted", 0>>

\* C3 as stated: every record built holds the derived field and every
\* column-value pair of its row unchanged, whatever the columns are, a
\* column named "$vectorize" included.
C3_PassthroughAllColumns ==
    \A k \in 1..Len(documents) :
        /\ "$vectorize" \in DOMAIN documents[k]
        /\ \A c \in DOMAIN df.rows[k] : documents[k][c] = df.rows[k][c]

\* C3 amended: every record built holds the derived field, every pair of its
\* row whose column is not named "$vectorize" unchanged, and no other key; a
\* column named "$vectorize" is replaced by the derived field.
C3_PassthroughOtherColumns ==
    \A k \in 1..Len(documents) :
        /\ DOMAIN documents[k] = (DOMAIN df.rows[k]) \cup {"$vectorize"}
        /\ \A c \in (DOMAIN df.rows[k]) \ {"$vectorize"} :
              documents[k][c] = df.rows[k][c]
        /\ documents[k]["$vectorize"].kind = "str"
        /\ documents[k]["$vectorize"].val =
              "summary: " \o (IF df.rows[k]["topic"].kind = "str"
                                 THEN df.rows[k]["topic"].val ELSE "nan")
              \o " | hashtags: " \o (IF df.rows[k]["hashtags_used"].kind = "str"
                                        THEN df.rows[k]["hashtags_used"].val ELSE "nan")

C3_Witness ==
    /\ Len(documents) = 2
    /\ df.columns = {"topic", "hashtags_used", "author", "$vectorize"}
    /\ df.rows[2]["$vectorize"] = StrVal("stale")
    /\ df.rows[2]["author"] = StrVal("ann")
    /\ documents[2]["author"] = StrVal("ann")

\* C4: the derived field of the record built from a row whose topic and
\* hashtags_used are strings is "summary: " + topic + " | hashtags: " +
\* hashtags_used with the values of that same row; for topic "sports" and
\* hashtags "#nba,#finals" it is "summary: sports | hashtags: #nba,#finals".
C4_DerivedField ==
    \A k \in 1..Len(documents) :
        LET row == df.rows[k] IN
        (row["topic"].kind = "str" /\ row["hashtags_used"].kind = "str") =>
            /\ documents[k]["$vectorize"] =
                  [kind |-> "str",
                   val |-> "summary: " \o row["topic"].val
                           \o " | hashtags: " \o row["hashtags_used"].val]
            /\ (row["topic"].val = "sports" /\ row["hashtags_used"].val = "#nba,#finals") =>
                  documents[k]["$vectorize"].val = "summary: sports | hashtags: #nba,#finals"

C4_Witness ==
    /\ Len(documents) = 2
    /\ df.rows[1]["topic"] = StrVal("news")
    /\ df.rows[2]["topic"] = StrVal("sports")
    /\ df.rows[2]["hashtags_used"] = StrVal("#nba,#finals")
    /\ documents[2]["$vectorize"].val = "summary: sports | hashtags: #nba,#finals"

\* C5: when some row of the frame lacks topic or hashtags_used, the run
\* aborts with the missing-field error (KeyError) at the first such row and
\* insert_many is never called.
C5_MissingFieldAborts ==
    SomeRowLacksKey =>
        /\ CallsOf("insert_many") = {}
        /\ pc \in {"build", "failed"}
        /\ pc = "build" => i <= FirstRowLackingKey /\ error = None
        /\ pc = "failed" => error = "KeyError" /\ i = FirstRowLackingKey
        /\ Len(documents) = i - 1

C5_Witness ==
    /\ pc = "failed"
    /\ error = "KeyError"
    /\ df.columns = {"topic", "author"}
    /\ Len(df.rows) = 2

\* C6: the calls to the remote service are made in the order get_database,
\* (info,) create_collection, insert_many; create_collection only once
\* connect_to_database has returned a database, insert_many only once
\* create_collection has returned a collection; and once a step has failed
\* no further call is made and nothing further is printed.
C6_FixedOrder ==
    /\ [](/\ IsPrefix(Ops, <<"get_database", "info", "create_collection", "insert_many">>)
          /\ CallsOf("create_collection") # {} => database # None
          /\ CallsOf("insert_many") # {} => collection # None /\ database # None
          /\ collection # None => database # None)
    /\ [][pc = "failed" => (calls' = calls /\ printed' = printed /\ pc' = "failed")]_vars

C6_Witness ==
    /\ pc = "done"
    /\ Ops = <<"get_database", "info", "create_collection", "insert_many">>

C6_WitnessFailure ==
    /\ pc = "failed"
    /\ error = "ProvisioningError"
    /\ Ops = <<"get_database", "info", "create_collection">>

\* C7: each remote operation is called at most once in a run, and the one
\* insert_many call carries all the records of the file.
C7_AtMostOnce ==
    /\ \A op \in {"get_database", "info", "create_collection", "insert_many"} :
          Cardinality(CallsOf(op)) <= 1
    /\ \A docs \in Submitted : docs = documents /\ Len(docs) = Len(df.rows)

C7_Witness ==
    /\ pc = "failed"
    /\ error = "IngestError"
    /\ Cardinality(CallsOf("insert_many")) = 1
    /\ Len(df.rows) = 2

ErrorLines == { <<"Error connecting to database">> }

\* C8 as stated: whatever error ends the run, an explanatory message has
\* been printed before it does.
C8_MessageForEveryError ==
    pc = "failed" =>
        /\ printed # <<>>
        /\ printed[Len(printed)] \in ErrorLines

\* C8 amended: a run ended by a connection failure has printed "Error
\* connecting to database" as its last line; a run ended by any other error
\* has printed no error line at all.
C8_MessageForConnectionError ==
    pc = "failed" =>
        /\ error \in {"RuntimeError", "ConnectionError", "ProvisioningError",
                      "FormatError", "KeyError", "IngestError"}
        /\ error = "ConnectionError" =>
              printed # <<>> /\ printed[Len(printed)] \in ErrorLines
        /\ error # "ConnectionError" =>
              \A k \in 1..Len(printed) : printed[k] \notin ErrorLines

C8_Witness ==
    /\ pc = "failed"
    /\ error = "ConnectionError"
    /\ Ops = <<"get_database", "info">>
    /\ printed = <<<<"Error connecting to database">>>>

\* C9: every record given to insert_many has a "$vectorize" field that is a
\* non-empty string.
C9_VectorizeNonEmpty ==
    \A docs \in Submitted :
        \A k \in 1..Len(docs) :
            /\ "$vectorize" \in DOMAIN docs[k]
            /\ docs[k]["$vectorize"].kind = "str"
            /\ docs[k]["$vectorize"].val # ""
            /\ Len(docs[k]["$vectorize"].val) > 0

C9_Witness ==
    /\ \E docs \in Submitted : Len(docs) = 2 /\ docs[1]["$vectorize"].val = "summary: nan | hashtags: nan"

\* C10: the records given to insert_many are in the order of the rows of the
\* frame: there are as many, and the k-th carries the cells of the k-th row.
C10_OrderPreserved ==
    \A docs \in Submitted :
        /\ Len(docs) = Len(df.rows)
        /\ \A k \in 1..Len(docs) :
              \A c \in (DOMAIN df.rows[k]) \ {"$vectorize"} : docs[k][c] = df.rows[k][c]

C10_Witness ==
    \E docs \in Submitted :
        /\ Len(docs) = 2
        /\ df.rows[1] # df.rows[2]
        /\ df.rows[1]["topic"] # df.rows[2]["topic"]

====
